---- MODULE Spec2Model ----
(***************************************************************************)
(* Model of the 11st review crawler: the command-line entry point (main),  *)
(* URL validation and shop dispatch, the St11 helper's scan/paginate loop  *)
(* over the review panel, and its CSV export.                              *)
(*                                                                         *)
(* The review panel is an external, live page.  It is modelled as a list   *)
(* of container blocks (.area_list) that only grows: the page may reveal a *)
(* further block at any moment while the crawler is working, and blocks    *)
(* already shown stay in the document with the attributes they carry.      *)
(* A block holds a number of item elements; what an item element holds is  *)
(* drawn when the crawler reads it.  Every await of the code is one step   *)
(* of the run, so the page can change between any two of them.             *)
(***************************************************************************)
EXTENDS Integers, Sequences, FiniteSets, TLC

(***************************************************************************)
(* Bounds of the model.                                                    *)
(***************************************************************************)
MaxBlocks == 2      \* container blocks the panel reveals during one run
MaxItems == 2       \* items in one container block
MaxCount == 2       \* largest maxCount a caller passes
MaxM == 1           \* largest number of load-more clicks the panel accepts

(***************************************************************************)
(* Small helpers.                                                          *)
(***************************************************************************)
Min(a, b) == IF a <= b THEN a ELSE b

(***************************************************************************)
(* JavaScript values.  A number that may be undefined is <<>> (undefined)  *)
(* or <<n>>.  A relational comparison with undefined is false.             *)
(***************************************************************************)
Undefined == <<>>
Num(n) == <<n>>

JsLt(n, m) == m # Undefined /\ n < m[1]
JsGe(n, m) == m # Undefined /\ n >= m[1]

(***************************************************************************)
(* Text is a sequence of characters.  String.prototype.trim removes the    *)
(* surrounding white space; String.prototype.includes is substring search. *)
(***************************************************************************)
RECURSIVE TrimLeft(_)
TrimLeft(s) == IF s # <<>> /\ Head(s) = " " THEN TrimLeft(Tail(s)) ELSE s

RECURSIVE TrimRight(_)
TrimRight(s) ==
  IF s # <<>> /\ s[Len(s)] = " " THEN TrimRight(SubSeq(s, 1, Len(s) - 1)) ELSE s

Trim(s) == TrimRight(TrimLeft(s))

Includes(s, sub) ==
  \E k \in 0..(Len(s) - Len(sub)) : SubSeq(s, k + 1, k + Len(sub)) = sub

(***************************************************************************)
(* Registered shops (constants/support-shop.constant.ts), in declaration   *)
(* order, and the name the entry point dispatches on.                      *)
(***************************************************************************)
SUPPORT_SHOP_LIST ==
  << [key |-> "11st", url |-> <<"s", "t">>],
     [key |-> "coupang", url |-> <<"c", "p">>] >>

SUPPORT_SHOP_NAME_11st == "11st"

(***************************************************************************)
(* SUPPORT_URL_SCHEMA: z.string().url() followed by the refinement "some   *)
(* registered shop url is contained in the input".  An input carries its   *)
(* text and whether zod's url() syntax check accepts it.                   *)
(***************************************************************************)
RefineAlways(text) == TRUE

Refine(text) ==
  LET supportList == [i \in 1..Len(SUPPORT_SHOP_LIST) |-> SUPPORT_SHOP_LIST[i].url]
  IN  \E i \in 1..Len(supportList) : Includes(text, supportList[i])

SUPPORT_URL_SCHEMA(u) == u.syntaxOk /\ Refine(u.text)

(***************************************************************************)
(* getSiteName: the callback of find names its second parameter url, which *)
(* shadows the input, so the test is "the shop url contains itself".       *)
(* The result is <<>> when find returns undefined, else <<key>>.           *)
(***************************************************************************)
getSiteName(text) ==
  LET supportList ==
        [i \in 1..Len(SUPPORT_SHOP_LIST) |->
           <<SUPPORT_SHOP_LIST[i].key, SUPPORT_SHOP_LIST[i].url>>]
      hits == {i \in 1..Len(supportList) :
                 Includes(supportList[i][2], supportList[i][2])}
  IN  IF hits = {} THEN <<>>
      ELSE <<supportList[CHOOSE i \in hits : \A j \in hits : i <= j][1]>>

(***************************************************************************)
(* Inputs of the entry point.                                              *)
(***************************************************************************)
Urls ==
  { [text |-> <<"s", "t">>, syntaxOk |-> TRUE],
    [text |-> <<"c", "p">>, syntaxOk |-> TRUE],
    [text |-> <<"t", "s">>, syntaxOk |-> TRUE],
    [text |-> <<"s", "t">>, syntaxOk |-> FALSE] }

ApiUrl == [text |-> <<"s", "t">>, syntaxOk |-> TRUE]

(***************************************************************************)
(* Rendered items.  A field of an item element is the element the field's  *)
(* selector finds (found, with its text content) or nothing.               *)
(***************************************************************************)
El(t) == [found |-> TRUE, text |-> t]
NoEl == [found |-> FALSE, text |-> <<>>]

okA == [name |-> El(<<" ", "a">>), score |-> El(<<"5">>),
        content |-> El(<<"y", ",", "z", " ">>), date |-> El(<<"d", "1">>)]
noScore == [name |-> El(<<"c">>), score |-> NoEl,
            content |-> El(<<"w">>), date |-> El(<<"d", "1">>)]
badDate == [name |-> El(<<"e">>), score |-> El(<<"1">>),
            content |-> El(<<"v">>), date |-> El(<<"?">>)]

ItemKinds == {okA, noScore, badDate}

(***************************************************************************)
(* moment(date).toDate(): a recognised date text gives its point in time,  *)
(* any other text gives the Invalid Date value; nothing is thrown.         *)
(***************************************************************************)
InvalidDate == <<"NaN">>

MomentToDate(text) ==
  IF text = <<"d", "1">> THEN <<"t", "1">> ELSE InvalidDate

\* Date.prototype.toString, as the template literal of exportCSV applies it
DateToString(d) == IF d = InvalidDate THEN <<"Invalid Date">> ELSE <<"D">> \o d

(***************************************************************************)
(* Field extraction of one item element (the try block of the item loop):  *)
(* textContent() of a selector that finds nothing throws after its         *)
(* timeout, and the catch skips the item.  With the four texts read, the   *)
(* Review is built from the trimmed texts and moment's date.               *)
(***************************************************************************)
Review(name, score, content, formattedDate) ==
  [author |-> name, score |-> score, content |-> content,
   createdAt |-> formattedDate]

ExtractOk(item) ==
  item.name.found /\ item.score.found /\ item.content.found /\ item.date.found

ExtractReview(item) ==
  Review(Trim(item.name.text), Trim(item.score.text), Trim(item.content.text),
         MomentToDate(Trim(item.date.text)))

(***************************************************************************)
(* The loop conditions of getReviewList and of the item loop, and the      *)
(* result of loadMoreReviews for a button that is or is not visible.       *)
(***************************************************************************)
CapacityOffByOne(len, max) == max # Undefined /\ len > max[1]

CapacityNever(len, max) == FALSE

\* if (this.collection.length >= this.maxCount) break
CapacityReached(len, max) == JsGe(len, max)

WantsMoreOrEqual(len, max) == max # Undefined /\ len <= max[1]

\* if (this.collection.length < this.maxCount) ... loadMoreReviews
WantsMore(len, max) == JsLt(len, max)

LoadMoreAlways(visible) == TRUE

\* loadMoreReviews: true after a click on the visible button, else false
LoadMoreResult(visible) == visible

(***************************************************************************)
(* CSV lines written by exportCSV.                                         *)
(***************************************************************************)
CsvHeader == <<"author", ",", "score", ",", "content", ",", "createdAt", "\n">>

CsvLine(review) ==
  review.author \o <<",">> \o review.score \o <<",">> \o review.content
    \o <<",">> \o DateToString(review.createdAt) \o <<"\n">>

(***************************************************************************)
(* State.                                                                  *)
(***************************************************************************)
VARIABLES
  pc,           \* position of the run (main, getReviewList, exportCSV)
  caller,       \* "main": the command-line entry point; "api": a direct caller
  url,          \* the input URL
  requested,    \* the maximum count the caller asks for
  maxCount,     \* this.maxCount of the crawler
  browser,      \* what main has done: launched, page opened, navigations
  collection,   \* this.collection
  panel,        \* container blocks of the review panel, in document order
  M,            \* load-more clicks after which the button is gone
  clicks,       \* load-more clicks done
  passes,       \* scan passes started
  lastLoad,     \* result of the last loadMoreReviews call: <<>> before any
  elements,     \* item elements enumerated by the running pass
  idx,          \* position of the item loop in elements
  pass,         \* the running pass: blocks and collection size at its start, block marked
  reads,        \* the items the running pass has read: element and what it held
  src,          \* for each Review of the collection, the element it was read from
  err,          \* the error that ended the run, "" while there is none
  dir,          \* output directory: "unknown", "absent", "present"
  mkdirBusy,    \* mkdir has been issued and its callback has not run yet
  pending,      \* writeFile calls issued and not completed
  file          \* lines of the destination file

vars == <<pc, caller, url, requested, maxCount, browser, collection, panel, M,
          clicks, passes, lastLoad, elements, idx, pass, reads, src, err, dir,
          mkdirBusy, pending, file>>

crawlVars == <<collection, panel, clicks, passes, lastLoad, elements, idx, pass,
               reads, src>>
exportVars == <<dir, mkdirBusy, pending, file>>
inputVars == <<caller, url, requested, M>>

Unmarked(p) == {b \in 1..Len(p) : ~p[b].marked}

ButtonVisible == clicks < M

NoBrowser == [launched |-> FALSE, pageOpened |-> FALSE, navigations |-> 0]

NoPass == [blocks |-> 0, size |-> 0, marked |-> 0]

InitCommon ==
  /\ collection = <<>>
  /\ panel = <<>>
  /\ M \in 0..MaxM
  /\ clicks = 0
  /\ passes = 0
  /\ lastLoad = <<>>
  /\ elements = <<>>
  /\ idx = 1
  /\ pass = NoPass
  /\ reads = <<>>
  /\ src = <<>>
  /\ err = ""
  /\ dir = "unknown"
  /\ mkdirBusy = FALSE
  /\ pending = {}
  /\ file = <<>>

\* the process has started main: nothing launched, no crawler yet
InitMain ==
  /\ caller = "main"
  /\ pc = "main_launch"
  /\ url \in Urls
  /\ requested \in 1..MaxCount
  /\ maxCount = Undefined
  /\ browser = NoBrowser
  /\ InitCommon

\* a caller holds a page and has constructed new St11(page, url, maxCount)
InitApi ==
  /\ caller = "api"
  /\ pc = "goto"
  /\ url = ApiUrl
  /\ requested \in 0..MaxCount
  /\ maxCount = Num(requested)
  /\ browser = [launched |-> TRUE, pageOpened |-> TRUE, navigations |-> 0]
  /\ InitCommon

Init == InitMain \/ InitApi

Fail(e) == pc' = "failed" /\ err' = e

(***************************************************************************)
(* main (the command-line entry point).                                    *)
(***************************************************************************)
\* chromium.launch(), before the options are parsed
MainLaunch ==
  /\ pc = "main_launch"
  /\ browser' = [browser EXCEPT !.launched = TRUE]
  /\ pc' = "main_validate"
  /\ UNCHANGED <<inputVars, maxCount, crawlVars, err, exportVars>>

\* SUPPORT_URL_SCHEMA.safeParse(url); throw when it fails
MainValidate ==
  /\ pc = "main_validate"
  /\ IF SUPPORT_URL_SCHEMA(url) THEN pc' = "main_page" /\ err' = err
     ELSE Fail("validation")
  /\ UNCHANGED <<inputVars, maxCount, browser, crawlVars, exportVars>>

\* browser.newContext(), context.newPage()
MainNewPage ==
  /\ pc = "main_page"
  /\ browser' = [browser EXCEPT !.pageOpened = TRUE]
  /\ pc' = "main_goto"
  /\ UNCHANGED <<inputVars, maxCount, crawlVars, err, exportVars>>

\* page.goto(url)
MainGoto ==
  /\ pc = "main_goto"
  /\ browser' = [browser EXCEPT !.navigations = @ + 1]
  /\ pc' = "main_dispatch"
  /\ UNCHANGED <<inputVars, maxCount, crawlVars, err, exportVars>>

\* getSiteName(url); for 11st: new St11(page, url), whose third constructor
\* argument is missing, then crawler.getReviewList(maxCount), whose argument
\* getReviewList does not declare
MainDispatch ==
  /\ pc = "main_dispatch"
  /\ LET siteName == getSiteName(url.text)
     IN  IF siteName = <<>> THEN Fail("unsupported") /\ maxCount' = maxCount
         ELSE IF siteName[1] = SUPPORT_SHOP_NAME_11st
              THEN pc' = "goto" /\ maxCount' = Undefined /\ err' = err
              ELSE pc' = "main_end" /\ maxCount' = maxCount /\ err' = err
  /\ UNCHANGED <<inputVars, browser, crawlVars, exportVars>>

(***************************************************************************)
(* St11.getReviewList, up to the loop.                                     *)
(***************************************************************************)
\* this.page.goto(this.url)
Goto ==
  /\ pc = "goto"
  /\ browser' = [browser EXCEPT !.navigations = @ + 1]
  /\ pc' = "tab"
  /\ UNCHANGED <<inputVars, maxCount, crawlVars, err, exportVars>>

StartPass ==
  /\ passes' = passes + 1
  /\ pass' = [blocks |-> Len(panel), size |-> Len(collection), marked |-> 0]
  /\ reads' = <<>>

\* wait for the review tab, click it, take the review frame; the loop then
\* calls getReviewContentInElement for the first time
OpenTab ==
  /\ pc = "tab"
  /\ pc' = "scan_wait"
  /\ StartPass
  /\ UNCHANGED <<inputVars, maxCount, browser, collection, panel, clicks,
                 lastLoad, elements, idx, src, err, exportVars>>

(***************************************************************************)
(* The panel reveals one more container block, with any items.             *)
(***************************************************************************)
LoopPcs == {"scan_wait", "scan_mark", "scan_enum", "scan_item", "loop_check",
            "load_more"}

Reveal ==
  /\ pc \in LoopPcs
  /\ Len(panel) < MaxBlocks
  /\ \E n \in 0..MaxItems :
       panel' = Append(panel, [marked |-> FALSE, n |-> n])
  /\ UNCHANGED <<pc, inputVars, maxCount, browser, collection, clicks, passes,
                 lastLoad, elements, idx, pass, reads, src, err, exportVars>>

(***************************************************************************)
(* St11.getReviewContentInElement (one scan pass).                         *)
(***************************************************************************)
\* locator('.area_list:not([data-crawl])').waitFor({state: 'visible'}): a
\* locator action is strict, it throws when the locator finds more than one
\* element; it throws after its timeout when it finds none
ScanWait ==
  /\ pc = "scan_wait"
  /\ \/ /\ Cardinality(Unmarked(panel)) = 1
        /\ pc' = "scan_mark" /\ err' = err
     \/ /\ Cardinality(Unmarked(panel)) > 1
        /\ Fail("strict")
     \/ /\ Unmarked(panel) = {}
        /\ Fail("timeout")
  /\ UNCHANGED <<inputVars, maxCount, browser, crawlVars, exportVars>>

MarkNothing(p, b) == p

\* el.setAttribute('data-crawl', 'true')
MarkBlock(p, b) == [p EXCEPT ![b].marked = TRUE]

\* isVisible() and evaluate(...) on the same locator, resolved again: strict
ScanMark ==
  /\ pc = "scan_mark"
  /\ LET u == Unmarked(panel)
     IN  IF Cardinality(u) = 1
         THEN LET b == CHOOSE x \in u : TRUE
              IN  /\ panel' = MarkBlock(panel, b)
                  /\ pass' = [pass EXCEPT !.marked = b]
                  /\ pc' = "scan_enum" /\ err' = err
         ELSE Fail("strict") /\ UNCHANGED <<panel, pass>>
  /\ UNCHANGED <<inputVars, maxCount, browser, collection, clicks, passes,
                 lastLoad, elements, idx, reads, src, exportVars>>

\* the item elements, in document order, of the unmarked blocks from b on
RECURSIVE ItemsFrom(_, _)
ItemsFrom(p, b) ==
  IF b > Len(p) THEN <<>>
  ELSE (IF ~p[b].marked THEN [i \in 1..p[b].n |-> <<b, i>>] ELSE <<>>)
         \o ItemsFrom(p, b + 1)

\* locator('.area_list:not([data-crawl]) .review_list_element').all(),
\* resolved when it is called, after the marker has been set
EnumerateItems(p) == ItemsFrom(p, 1)

ScanEnum ==
  /\ pc = "scan_enum"
  /\ elements' = EnumerateItems(panel)
  /\ idx' = 1
  /\ pc' = "scan_item"
  /\ UNCHANGED <<inputVars, maxCount, browser, collection, panel, clicks, passes,
                 lastLoad, pass, reads, src, err, exportVars>>

ItemErrorEscapes == FALSE

\* the try/catch around the field extraction: the catch continues the loop
ItemErrorCaught == TRUE

\* one iteration of the item loop, or its end; the element holds item
ScanItem ==
  /\ pc = "scan_item"
  /\ IF idx > Len(elements) \/ CapacityReached(Len(collection), maxCount)
     THEN /\ pc' = "loop_check"
          /\ UNCHANGED <<collection, reads, src, idx, err>>
     ELSE \E item \in ItemKinds :
            /\ reads' = Append(reads, [ref |-> elements[idx], item |-> item])
            /\ IF ExtractOk(item)
               THEN /\ collection' = Append(collection, ExtractReview(item))
                    /\ src' = Append(src, elements[idx])
                    /\ idx' = idx + 1
                    /\ UNCHANGED <<pc, err>>
               ELSE IF ItemErrorCaught
                    THEN idx' = idx + 1 /\ UNCHANGED <<pc, err, collection, src>>
                    ELSE Fail("item") /\ UNCHANGED <<idx, collection, src>>
  /\ UNCHANGED <<inputVars, maxCount, browser, panel, clicks, passes, lastLoad,
                 elements, pass, exportVars>>

(***************************************************************************)
(* The loop of getReviewList and St11.loadMoreReviews.                     *)
(***************************************************************************)
\* if (this.collection.length < this.maxCount) isContinue = await loadMore...
\* if (!isContinue) break
LoopCheck ==
  /\ pc = "loop_check"
  /\ pc' = IF WantsMore(Len(collection), maxCount) THEN "load_more"
           ELSE "export_mkdir"
  /\ UNCHANGED <<inputVars, maxCount, browser, crawlVars, err, exportVars>>

\* loadMoreReviews: click the button when it is visible; the result decides
\* whether the loop runs another pass
LoadMore ==
  /\ pc = "load_more"
  /\ clicks' = IF ButtonVisible THEN clicks + 1 ELSE clicks
  /\ lastLoad' = <<LoadMoreResult(ButtonVisible)>>
  /\ IF LoadMoreResult(ButtonVisible)
     THEN pc' = "scan_wait" /\ StartPass
     ELSE pc' = "export_mkdir" /\ UNCHANGED <<passes, pass, reads>>
  /\ UNCHANGED <<inputVars, maxCount, browser, collection, panel, elements, idx,
                 src, err, exportVars>>

(***************************************************************************)
(* St11.exportCSV and the return of getReviewList.                         *)
(***************************************************************************)
\* fs.mkdir(pathname, {recursive: true}, callback): the callback form
\* returns at once, the directory is made later.  Whether the directory is
\* there before the run is decided here, where it is first looked at.
ExportMkdir ==
  /\ pc = "export_mkdir"
  /\ dir = "unknown"
  /\ dir' \in {"absent", "present"}
  /\ mkdirBusy' = TRUE
  /\ pc' = "export_header"
  /\ elements' = <<>> /\ idx' = 1
  /\ UNCHANGED <<inputVars, maxCount, browser, collection, panel, clicks, passes,
                 lastLoad, pass, reads, src, err, pending, file>>

\* mkdir completes: the directory exists, or the callback logs the error
MkdirDone ==
  /\ mkdirBusy
  /\ pc \in {"export_header", "export_await", "export_records"}
  /\ mkdirBusy' = FALSE
  /\ \/ dir' = "present"
     \/ dir = "absent" /\ dir' = dir
  /\ UNCHANGED <<pc, inputVars, maxCount, browser, crawlVars, err, pending, file>>

WriteNotAwaited == FALSE

\* the await in front of each writeFile
WriteAwaited == TRUE

AfterIssue(next) == IF WriteAwaited THEN "export_await" ELSE next

\* writeFile(destination, header)
ExportHeader ==
  /\ pc = "export_header"
  /\ pending' = pending \cup {[data |-> CsvHeader, flag |-> "w", then |-> 1]}
  /\ pc' = AfterIssue("export_records")
  /\ UNCHANGED <<inputVars, maxCount, browser, crawlVars, err, dir, mkdirBusy, file>>

\* for (const review of reviews) writeFile(destination, line, {flag: 'a'});
\* after the last one, return destination and return this.collection
ExportRecord ==
  /\ pc = "export_records"
  /\ IF idx > Len(collection)
     THEN pc' = "done" /\ UNCHANGED <<pending, idx>>
     ELSE /\ pending' = pending \cup
               {[data |-> CsvLine(collection[idx]), flag |-> "a", then |-> idx + 1]}
          /\ idx' = idx + 1
          /\ pc' = AfterIssue("export_records")
  /\ UNCHANGED <<inputVars, maxCount, browser, collection, panel, clicks, passes,
                 lastLoad, elements, pass, reads, src, err, dir, mkdirBusy, file>>

\* the file after writeFile(data, {flag}) has succeeded
Written(f, w) == IF w.flag = "w" THEN <<w.data>> ELSE Append(f, w.data)

\* a pending writeFile completes: it succeeds when the directory is there,
\* and the awaiting exportCSV goes on
WriteDone ==
  /\ \E w \in pending :
       /\ dir = "present"
       /\ pending' = pending \ {w}
       /\ file' = Written(file, w)
  /\ pc' = IF pc = "export_await" THEN "export_records" ELSE pc
  /\ UNCHANGED <<inputVars, maxCount, browser, crawlVars, err, dir, mkdirBusy>>

\* a pending writeFile fails (the directory is missing, or any I/O error):
\* the rejection leaves exportCSV and getReviewList
WriteError ==
  /\ \E w \in pending : pending' = pending \ {w}
  /\ IF pc = "export_await" THEN Fail("io") ELSE UNCHANGED <<pc, err>>
  /\ UNCHANGED <<inputVars, maxCount, browser, crawlVars, dir, mkdirBusy, file>>

Next ==
  \/ MainLaunch \/ MainValidate \/ MainNewPage \/ MainGoto \/ MainDispatch
  \/ Goto \/ OpenTab \/ Reveal
  \/ ScanWait \/ ScanMark \/ ScanEnum \/ ScanItem
  \/ LoopCheck \/ LoadMore
  \/ ExportMkdir \/ MkdirDone \/ ExportHeader \/ ExportRecord
  \/ WriteDone \/ WriteError

Spec == Init /\ [][Next]_vars

(***************************************************************************)
(* Shop dispatch alone: main has reached getSiteName(url) with any text    *)
(* over the characters of the shop urls, and applies it.                   *)
(***************************************************************************)
MaxUrlLen == 3      \* longest input text of the dispatch

UrlChars == {"s", "t", "c", "p"}

UrlTexts == UNION {[1..k -> UrlChars] : k \in 0..MaxUrlLen}

InitShop ==
  /\ caller = "main"
  /\ pc = "main_dispatch"
  /\ url \in [text : UrlTexts, syntaxOk : {TRUE}]
  /\ requested = 1
  /\ maxCount = Undefined
  /\ browser = [launched |-> TRUE, pageOpened |-> TRUE, navigations |-> 1]
  /\ InitCommon

NextShop == MainDispatch

SpecShop == InitShop /\ [][NextShop]_vars

(***************************************************************************)
(* Properties.                                                             *)
(***************************************************************************)
HasBound == maxCount # Undefined

\* C1: capacity invariant.  In every state of a run of a crawler constructed
\* with maxCount >= 0, the collection holds at most maxCount Reviews.
C1_CapacityInvariant ==
  (HasBound /\ maxCount[1] >= 0) => Len(collection) <= maxCount[1]

\* the item loop meets its break with the collection full and items left
C1_Witness ==
  /\ pc = "scan_item" /\ HasBound /\ maxCount[1] > 0
  /\ Len(collection) = maxCount[1]
  /\ idx <= Len(elements)

\* C2: the bound given at the public call is the bound enforced.  For a run
\* started by main, the collection never holds more than the requested count,
\* and the loop is not left with fewer Reviews than requested while the
\* load-more button is visible.
C2_EntryPointBound ==
  caller = "main" =>
    /\ Len(collection) <= requested
    /\ (pc = "export_mkdir" /\ Len(collection) < requested) => ~ButtonVisible

LoopLeft ==
  \/ pc \in {"export_mkdir", "export_header", "export_await", "export_records", "done"}
  \/ pc = "failed" /\ err \in {"strict", "timeout", "item", "io"}

\* C3: when the extraction loop of a crawler constructed with maxCount >= 0
\* has ended, the collection holds exactly maxCount Reviews or the last call
\* of loadMoreReviews returned false.
C3_EndsFullOrExhausted ==
  (caller = "api" /\ LoopLeft) =>
    (Len(collection) = maxCount[1] \/ lastLoad = <<FALSE>>)

\* C4: with a load-more button that is visible for exactly M calls of
\* loadMoreReviews, a run starts at most M + 1 scan passes, whatever maxCount.
C4_PassesWithinMPlusOne == passes <= clicks + 1 /\ clicks <= M

\* a run that used every click the button allowed and returned
C4_Witness == pc = "done" /\ M >= 1 /\ clicks = M /\ passes = M + 1

UnchangedRescan ==
  /\ passes >= 2
  /\ Len(panel) = pass.blocks
  /\ Unmarked(panel) = {}
  /\ pass.marked = 0

\* C6: idempotent re-scan.  A pass over a panel unchanged since the pass
\* before it leaves the collection as it was and completes normally.
C6_IdempotentRescan ==
  UnchangedRescan => (pc # "failed" /\ Len(collection) = pass.size)

\* the pass has ended; it started with one unmarked block, which it marked,
\* and the panel revealed nothing during it
PassOverOneBlock ==
  /\ pc = "loop_check" /\ HasBound
  /\ pass.marked # 0
  /\ Len(panel) = pass.blocks

\* C7: a pass that starts with one unmarked block of n items, none of which
\* fails extraction, and with capacity c, marks the block and adds exactly
\* min(n, c) Reviews, read from the items of that block.
C7_PassHarvestsNewBlock ==
  (PassOverOneBlock /\ \A k \in 1..Len(reads) : ExtractOk(reads[k].item)) =>
    /\ panel[pass.marked].marked
    /\ Len(collection) =
         pass.size + Min(panel[pass.marked].n, maxCount[1] - pass.size)
    /\ \A i \in (pass.size + 1)..Len(collection) : src[i][1] = pass.marked

\* the reads of the running pass whose extraction succeeded, in order
GoodReads == SelectSeq(reads, LAMBDA r : ExtractOk(r.item))

\* the pass has ended; it enumerated N items, capacity was at least N at its
\* start, and exactly one of the items read failed extraction
PassWithOneFailure ==
  /\ pc = "loop_check"
  /\ maxCount = Undefined \/ maxCount[1] - pass.size >= Len(elements)
  /\ Cardinality({k \in 1..Len(reads) : ~ExtractOk(reads[k].item)}) = 1

\* C8: partial-failure isolation.  No extraction failure leaves the pass, and
\* a pass over N items of which exactly one fails extraction reads all N and
\* adds the N - 1 others as Reviews, in order, and nothing for the failed one.
C8_PartialFailureIsolation ==
  /\ err # "item"
  /\ PassWithOneFailure =>
       /\ Len(reads) = Len(elements)
       /\ Len(collection) = pass.size + Len(elements) - 1
       /\ \A j \in 1..Len(GoodReads) :
            /\ collection[pass.size + j] = ExtractReview(GoodReads[j].item)
            /\ src[pass.size + j] = GoodReads[j].ref

\* a pass over two or more items whose first item failed extraction
C8_Witness ==
  /\ PassWithOneFailure
  /\ Len(elements) >= 2
  /\ ~ExtractOk(reads[1].item)
  /\ Len(collection) = pass.size + Len(elements) - 1

\* the text contains the url of no registered shop
NoRegisteredPattern(text) ==
  \A i \in 1..Len(SUPPORT_SHOP_LIST) : ~Includes(text, SUPPORT_SHOP_LIST[i].url)

\* C9: unsupported-source rejection.  For an input URL that contains no
\* registered shop url, main never opens a page, never navigates and never
\* builds or runs a crawler: it stops at the validation.
C9_UnsupportedRejected ==
  (caller = "main" /\ NoRegisteredPattern(url.text)) =>
    /\ ~browser.pageOpened
    /\ browser.navigations = 0
    /\ passes = 0 /\ panel = <<>> /\ clicks = 0
    /\ pc \in {"main_launch", "main_validate", "failed"}
    /\ pc = "failed" => err = "validation"

\* main has thrown for a well-formed URL of no registered shop
C9_Witness ==
  /\ caller = "main" /\ pc = "failed" /\ err = "validation"
  /\ url.syntaxOk /\ NoRegisteredPattern(url.text)

\* the file exportCSV has to produce for the collection
ExpectedFile ==
  <<CsvHeader>> \o [i \in 1..Len(collection) |-> CsvLine(collection[i])]

\* C10: export order.  At most one write is in flight; the file is at every
\* moment the header followed by the lines of the first Reviews in collection
\* order; when getReviewList returns it holds the header and one line per
\* Review: len(collection) + 1 lines.
C10_ExportOrder ==
  /\ Cardinality(pending) <= 1
  /\ Len(file) <= Len(ExpectedFile)
  /\ file = SubSeq(ExpectedFile, 1, Len(file))
  /\ pc = "done" => file = ExpectedFile

\* an export of two different Reviews has returned
C10_Witness ==
  /\ pc = "done" /\ Len(collection) >= 2
  /\ collection[1] # collection[2]
  /\ Len(file) = Len(collection) + 1

\* mkdir has called back with an error: it was issued, is no longer busy, and
\* the directory is still missing
MkdirFailed == dir = "absent" /\ ~mkdirBusy

\* C11: export I/O failures reach the caller.  When the creation of the
\* directory has failed, getReviewList ends by failing with that error; when
\* a write has failed it ends by failing with the write's error, and the
\* lines written before stay in the file; it returns only with every line
\* written.
C11_ExportFailuresReachCaller ==
  /\ (MkdirFailed /\ pc \in {"done", "failed"}) => (pc = "failed" /\ err = "mkdir")
  /\ (pc = "failed" /\ err = "io") =>
       (Len(file) <= Len(ExpectedFile) /\ file = SubSeq(ExpectedFile, 1, Len(file)))
  /\ pc = "done" => (pending = {} /\ Len(file) = Len(collection) + 1)

\* C12: directory before file.  While the write of the header is in flight,
\* the destination directory exists.
C12_DirectoryBeforeHeader ==
  (\E w \in pending : w.flag = "w") => dir = "present"

\* C13: nothing inside the loop aborts the run.  No run ends with an error
\* raised by a scan pass or by a pagination call.
C13_LoopNeverAborts ==
  ~(pc = "failed" /\ err \in {"timeout", "strict", "item"})

\* C14: a date text that cannot be parsed skips the item, so every Review of
\* the collection has a valid createdAt.
C14_EveryCreatedAtValid ==
  \A i \in 1..Len(collection) : collection[i].createdAt # InvalidDate

\* C15: no pagination once full.  loadMoreReviews is called only with fewer
\* than maxCount Reviews collected, and from a state in which a pass has run
\* and the collection holds maxCount Reviews no step clicks load-more or
\* starts a scan pass.
C15_NoPaginationOnceFull ==
  /\ [](pc = "load_more" => (HasBound /\ Len(collection) < maxCount[1]))
  /\ [][(HasBound /\ passes >= 1 /\ Len(collection) >= maxCount[1]) =>
          (clicks' = clicks /\ passes' = passes /\ pc' # "load_more")]_vars

\* a run returned full after the pass that filled it, the button still visible
C15_Witness ==
  /\ pc = "done" /\ HasBound /\ maxCount[1] > 0
  /\ Len(collection) = maxCount[1]
  /\ ButtonVisible

\* C16: with maxCount <= 0 no scan pass is attempted: no block is waited for
\* or marked, no item is enumerated, loadMoreReviews is not called, and the
\* collection stays empty.
C16_NoScanForNonPositive ==
  (HasBound /\ maxCount[1] <= 0) =>
    /\ passes = 0 /\ clicks = 0 /\ lastLoad = <<>>
    /\ Unmarked(panel) = 1..Len(panel)
    /\ elements = <<>> /\ reads = <<>>
    /\ collection = <<>>

\* C17 as claimed: a pass attempts at most as many item elements as the
\* capacity it started with (a skipped item uses up capacity).
C17_NoBackfill ==
  HasBound => Len(reads) <= (IF maxCount[1] > pass.size THEN maxCount[1] - pass.size ELSE 0)

\* C17 as amended: a skipped item uses up no capacity.  A pass adds one
\* Review per item read without failure; it stops short of maxCount only
\* when it has read every enumerated item; and it stops with the read that
\* fills the collection.
C17_SkippedItemsUseNoCapacity ==
  (pc = "loop_check" /\ HasBound /\ pass.size <= maxCount[1]) =>
    /\ Len(collection) = pass.size + Len(GoodReads)
    /\ Len(collection) < maxCount[1] => Len(reads) = Len(elements)
    /\ (reads # <<>> /\ Len(collection) = maxCount[1]) =>
         ExtractOk(reads[Len(reads)].item)

\* a pass read more items than its capacity, skipped the first and still
\* filled the collection from the items after it
C17_Witness ==
  /\ pc = "loop_check" /\ HasBound
  /\ maxCount[1] > pass.size
  /\ Len(reads) > maxCount[1] - pass.size
  /\ ~ExtractOk(reads[1].item)
  /\ Len(collection) = maxCount[1]

\* the registered url of the shop named key
PatternOf(key) ==
  SUPPORT_SHOP_LIST[CHOOSE i \in 1..Len(SUPPORT_SHOP_LIST) :
                      SUPPORT_SHOP_LIST[i].key = key].url

\* C18: shop dispatch agrees with validation.  Once main has applied
\* getSiteName to the url: it has thrown the unsupported-shop error exactly
\* when the url contains no registered shop url; it runs the 11st crawler
\* only for a url that contains the 11st url; and it dispatches to no
\* crawler only for a url that contains the url of another shop.
C18_DispatchAgreesWithValidation ==
  pc # "main_dispatch" =>
    /\ (pc = "failed" /\ err = "unsupported") <=> NoRegisteredPattern(url.text)
    /\ pc = "goto" => Includes(url.text, PatternOf(SUPPORT_SHOP_NAME_11st))
    /\ pc = "main_end" =>
         \E i \in 1..Len(SUPPORT_SHOP_LIST) :
           /\ SUPPORT_SHOP_LIST[i].key # SUPPORT_SHOP_NAME_11st
           /\ Includes(url.text, SUPPORT_SHOP_LIST[i].url)

====
